---- MODULE Spec2Model ----
(***************************************************************************)
(* Model of src/dagstuhl-dome-extension-metrics/__main__.py: the paginated *)
(* bio.tools fetch (get_tools), the driver (main) with its two cache       *)
(* files, the deduplication by biotoolsID and the conversion to the        *)
(* derived table (tools_to_df).                                            *)
(*                                                                         *)
(* A state is one point of a run of main, together with the two cache      *)
(* files in the working directory.  The process is single threaded, so     *)
(* one iteration of the loop of get_tools is one step.  Between two runs   *)
(* the user may delete a cache file; a further run then starts from the    *)
(* files the earlier runs left.                                            *)
(***************************************************************************)
EXTENDS Integers, Sequences, FiniteSets, TLC

(***************************************************************************)
(* Bounds of the model.                                                    *)
(***************************************************************************)
\* pages the server serves per topic: page MaxPages never carries a next
MaxPages == 2
\* failed attempts (HTTP failure, retried parse failure) per get_tools call
MaxRetries == 1
\* records per served page
MaxList == 1
\* records fetched in one run, all topics together
MaxTools == 2
\* records handed at once to the deduplication or to tools_to_df
MaxRecords == 3

(***************************************************************************)
(* Program constants.                                                      *)
(***************************************************************************)
GENOMIC_EDAM_TOPICS ==
    << "0622", "0797", "3173", "3974", "0085", "3174", "3943",
       "0208", "0194", "3796", "3922", "0122", "3308", "3941" >>

PROTEOMICS_EDAM_TOPICS == << "0121", "3922" >>

MACHINE_LEARNING_EDAM_TOPICS == << "3474" >>

\* time.sleep(5) in the 5xx handler
RetryDelay == 5

(***************************************************************************)
(* Strings.  A string that the code only compares is a TLA+ string; a      *)
(* string the code builds or searches is the sequence of its pieces.       *)
(***************************************************************************)
\* f"http://edamontology.org/topic_{t}"
TopicUri(t) == << "http://edamontology.org/topic_", t >>

\* the literal "Repository", character by character
RepositoryLiteral == << "R", "e", "p", "o", "s", "i", "t", "o", "r", "y" >>

\* needle in hay, for Python strings (hay and needle are character sequences)
StrContains(hay, needle) ==
    \E i \in 0..(Len(hay) - Len(needle)) :
        \A j \in 1..Len(needle) : hay[i + j] = needle[j]

\* ",".join(parts): the parts with a "," between neighbours
RECURSIVE StrJoin(_)
StrJoin(parts) ==
    IF Len(parts) = 0 THEN << >>
    ELSE IF Len(parts) = 1 THEN << parts[1] >>
    ELSE << parts[1], "," >> \o StrJoin(Tail(parts))

\* x in container, as Python evaluates it: a substring test when the container
\* is a str, an element test when it is a list
PyStr(chars) == [py |-> "str", v |-> chars]

PyList(items) == [py |-> "list", v |-> items]

PyIn(x, container) ==
    IF container.py = "str" THEN StrContains(container.v, x)
    ELSE \E i \in 1..Len(container.v) : container.v[i] = x

\* Python's None, as data.get("next") and e.response give it
None == "None"

(***************************************************************************)
(* Tool records as bio.tools serves them.  A key the record lacks is       *)
(* absent from the record's domain.                                        *)
(***************************************************************************)
SourceRepositoryType ==
    << "S", "o", "u", "r", "c", "e" >> \o RepositoryLiteral

OtherType == << "O", "t", "h", "e", "r" >>

ToolRecords ==
    { \* a tool
      [ biotoolsID |-> "t1", name |-> "A",
        topic |-> << [uri |-> TopicUri("0121")] >>,
        documentation |-> << [url |-> "d1"] >>,
        link |-> << >> ],
      \* the same tool under another name, without a topic list
      [ biotoolsID |-> "t1", name |-> "B",
        documentation |-> << >>,
        link |-> << >> ],
      \* another tool
      [ biotoolsID |-> "t2", name |-> "A",
        topic |-> << [uri |-> TopicUri("0622")], [uri |-> TopicUri("3474")] >>,
        documentation |-> << [url |-> "d1"], [url |-> "d2"] >>,
        link |-> << [url |-> "r1", type |-> PyList(<< RepositoryLiteral >>)],
                    [url |-> "r2", type |-> PyStr(OtherType)],
                    [url |-> "r3", type |-> PyStr(SourceRepositoryType)] >> ],
      \* a record without identifier and name
      [ topic |-> << >>,
        documentation |-> << >>,
        link |-> << >> ] }

(***************************************************************************)
(* tools_to_df: one row per record.  A record without the key topic,       *)
(* documentation or link raises KeyError inside the loop, before the       *)
(* DataFrame is built.                                                     *)
(***************************************************************************)
\* the keys of a record that the loop body reads with tool[...]
RequiredKeys == { "topic", "documentation", "link" }

\* the loop body raises KeyError on the record: lines 144, 163, 166
ToolRaises(tool) ==
    IF ~ (RequiredKeys \subseteq DOMAIN tool) THEN TRUE
    ELSE \/ \E k \in 1..Len(tool.topic) : "uri" \notin DOMAIN tool.topic[k]
         \/ \E k \in 1..Len(tool.documentation) :
                "url" \notin DOMAIN tool.documentation[k]
         \/ \E k \in 1..Len(tool.link) :
                ~ ({ "url", "type" } \subseteq DOMAIN tool.link[k])

ToolsToDfRaises(tools) == \E i \in 1..Len(tools) : ToolRaises(tools[i])

\* GetOrEmpty with None for a key the record lacks: tool.get(key)
GetOrNone(tool, key) == IF key \in DOMAIN tool THEN tool[key] ELSE None

\* tool.get(key, "")
GetOrEmpty(tool, key) == IF key \in DOMAIN tool THEN tool[key] ELSE ""

\* AnyTopic that compares the topic id alone, whatever the namespace
AnyTopicById(topics, topic_uris) ==
    \E k \in 1..Len(topics) : \E uri \in topic_uris : uri[2] = topics[k]

\* any(f"http://edamontology.org/topic_{t}" in topic_uris for t in topics)
AnyTopic(topics, topic_uris) ==
    \E k \in 1..Len(topics) : TopicUri(topics[k]) \in topic_uris

\* RepositoryUrls that keeps a link only when its type is "Repository" itself
RECURSIVE RepositoryUrlsOfExactType(_)
RepositoryUrlsOfExactType(links) ==
    IF Len(links) = 0 THEN << >>
    ELSE (IF links[1].type.v \in { RepositoryLiteral, << RepositoryLiteral >> }
          THEN << links[1].url >> ELSE << >>)
             \o RepositoryUrlsOfExactType(Tail(links))

\* [link["url"] for link in tool["link"] if "Repository" in link["type"]]
RECURSIVE RepositoryUrls(_)
RepositoryUrls(links) ==
    IF Len(links) = 0 THEN << >>
    ELSE (IF PyIn(RepositoryLiteral, links[1].type)
          THEN << links[1].url >> ELSE << >>) \o RepositoryUrls(Tail(links))

ToolRow(tool) ==
    LET topic_uris == { tool.topic[k].uri : k \in 1..Len(tool.topic) }
    IN  [ id |-> GetOrEmpty(tool, "biotoolsID"),
          name |-> GetOrEmpty(tool, "name"),
          is_genomics |-> AnyTopic(GENOMIC_EDAM_TOPICS, topic_uris),
          is_proteomics |-> AnyTopic(PROTEOMICS_EDAM_TOPICS, topic_uris),
          is_machine_learning |->
              AnyTopic(MACHINE_LEARNING_EDAM_TOPICS, topic_uris),
          documentation |->
              StrJoin([k \in 1..Len(tool.documentation) |->
                          tool.documentation[k].url]),
          repository |-> StrJoin(RepositoryUrls(tool.link)) ]

tools_to_df(tools) == [i \in 1..Len(tools) |-> ToolRow(tools[i])]

(***************************************************************************)
(* The deduplication of main:                                              *)
(*   unique_tools = {tool["biotoolsID"]: tool for tool in tools}           *)
(*   tools = list(unique_tools.values())                                   *)
(* A Python dict keeps its keys in the order of their first insertion; a   *)
(* later insertion under a key that is present replaces the value in       *)
(* place.  The dict is the sequence of its items.                          *)
(***************************************************************************)
\* DictSet that keeps the value a key already has (first occurrence wins)
DictSetKeepsFirst(d, k, v) ==
    IF \E i \in 1..Len(d) : d[i].key = k
    THEN d
    ELSE Append(d, [key |-> k, value |-> v])

\* DictSet that moves a key it replaces to the end of the dict
DictSetMovesToEnd(d, k, v) ==
    Append(SelectSeq(d, LAMBDA item : item.key # k), [key |-> k, value |-> v])

DictSet(d, k, v) ==
    IF \E i \in 1..Len(d) : d[i].key = k
    THEN [i \in 1..Len(d) |->
             IF d[i].key = k THEN [key |-> k, value |-> v] ELSE d[i]]
    ELSE Append(d, [key |-> k, value |-> v])

RECURSIVE DictOfTools(_, _)
DictOfTools(d, tools) ==
    IF Len(tools) = 0 THEN d
    ELSE DictOfTools(DictSet(d, tools[1].biotoolsID, tools[1]), Tail(tools))

DictValues(d) == [i \in 1..Len(d) |-> d[i].value]

\* tool["biotoolsID"] raises KeyError
DedupRaises(tools) ==
    \E i \in 1..Len(tools) : "biotoolsID" \notin DOMAIN tools[i]

UniqueTools(tools) == DictValues(DictOfTools(<< >>, tools))

(***************************************************************************)
(* The cache files.  A file is absent or holds a content.                  *)
(***************************************************************************)
NoFile == [exists |-> FALSE, content |-> << >>]

FileOf(content) == [exists |-> TRUE, content |-> << content >>]

\* json.dump(tools, f): the file is a JSON text that holds the array
JsonDump(tools) == [json |-> "array", items |-> tools]

\* json.load(f)
JsonLoad(text) == text.items

\* str(bool), as to_csv writes a boolean cell
BoolText(b) == IF b THEN "True" ELSE "False"

CsvHeader ==
    << "id", "name", "is_genomics", "is_proteomics", "is_machine_learning",
       "documentation", "repository" >>

\* df.to_csv(DF_CACHE_FILE, sep="\t", index=False): header line and one line
\* per row, every cell as text
ToCsv(df) ==
    [ header |-> CsvHeader,
      lines |-> [i \in 1..Len(df) |->
                   [ id |-> df[i].id,
                     name |-> df[i].name,
                     is_genomics |-> BoolText(df[i].is_genomics),
                     is_proteomics |-> BoolText(df[i].is_proteomics),
                     is_machine_learning |->
                         BoolText(df[i].is_machine_learning),
                     documentation |-> df[i].documentation,
                     repository |-> df[i].repository ]] ]

\* pd.read_csv(DF_CACHE_FILE, sep="\t"): an empty cell is read as NaN, a
\* column of True/False texts as booleans
NaN == "NaN"

ReadCell(text) == IF text = "" THEN NaN ELSE text

ReadJoined(text) == IF text = << >> THEN << NaN >> ELSE text

ReadCsv(csv) ==
    [i \in 1..Len(csv.lines) |->
        [ id |-> ReadCell(csv.lines[i].id),
          name |-> ReadCell(csv.lines[i].name),
          is_genomics |-> (csv.lines[i].is_genomics = "True"),
          is_proteomics |-> (csv.lines[i].is_proteomics = "True"),
          is_machine_learning |-> (csv.lines[i].is_machine_learning = "True"),
          documentation |-> ReadJoined(csv.lines[i].documentation),
          repository |-> ReadJoined(csv.lines[i].repository) ]]

(***************************************************************************)
(* What the server may answer to one request.                              *)
(***************************************************************************)
\* status codes of a response; raise_for_status raises on 4xx and 5xx
StatusCodes == { 200, 404, 500, 599 }

RaisesForStatus(status_code) == status_code >= 400 /\ status_code < 600

\* the list arrays of a served page
RECURSIVE SeqsUpTo(_, _)
SeqsUpTo(S, n) ==
    IF n = 0 THEN { << >> }
    ELSE LET shorter == SeqsUpTo(S, n - 1)
         IN  shorter \cup { Append(q, x) : q \in shorter, x \in S }

PageLists == SeqsUpTo(ToolRecords, MaxList)

\* the next field of a served page: absent, null, empty, or a URL
NextUrl == "?page=next"

NextFields == { "absent", None, "", NextUrl }

PageBody(list, count, next) ==
    IF next = "absent" THEN [list |-> list, count |-> count]
    ELSE [list |-> list, count |-> count, next |-> next]

\* the count field of a served page (it feeds the logged page total only)
PageCounts == { 0, 1 }

PageBodies ==
    { PageBody(list, count, next) :
        list \in PageLists, count \in PageCounts, next \in NextFields }

\* data.get("next")
GetNext(data) == IF "next" \in DOMAIN data THEN data.next ELSE None

\* math.ceil(a / b) for b > 0
Ceil(a, b) == (a + b - 1) \div b

(***************************************************************************)
(* main runs the fetcher over the proteomics topics, then over the         *)
(* genomics topics.                                                        *)
(***************************************************************************)
\* TopicsToFetch with the two loops of main the other way round
GenomicsTopicsFirst == GENOMIC_EDAM_TOPICS \o PROTEOMICS_EDAM_TOPICS

TopicsToFetch == PROTEOMICS_EDAM_TOPICS \o GENOMIC_EDAM_TOPICS

\* line 77: the URL of a request; topic and page are its only varying parts
Url(topic, p) == [topic |-> topic, page |-> p]

\* an entry of the request log: the URL requested and what came back: a page
\* (its list array, and whether its next field named a further page) or none
Served(url, data) ==
    [ url |-> url, ok |-> TRUE, list |-> data.list,
      more |-> ~ (GetNext(data) = None \/ GetNext(data) = "") ]

Failed(url) == [url |-> url, ok |-> FALSE, list |-> << >>, more |-> FALSE]

NoFault == [in |-> "none", error |-> "none"]

VARIABLES
    rawFile,        \* TOOL_CACHE_FILE (bio.tools.json)
    dfFile,         \* DF_CACHE_FILE (tools.dataframe.tsv)
    pc,             \* where the run of main is
    tools,          \* main: tools
    df,             \* main: df
    topicIdx,       \* main: position of the loops over the topics (0: none)
    gtTools,        \* get_tools: tools
    page,           \* get_tools: page
    max_pages,      \* get_tools: max_pages
    reqLog,         \* the requests of the current get_tools call, answered
    lastAnswer,     \* what the last request of the current call brought
    logged,         \* level of the last record get_tools logged
    pause,          \* seconds slept by the last iteration of get_tools
    path,           \* the branch of main the run took
    netUsed,        \* the run has issued a request
    rawWrites,      \* writes of TOOL_CACHE_FILE by the run
    dfWrites,       \* writes of DF_CACHE_FILE by the run
    transformCalls, \* calls of tools_to_df by the run
    rawFile0,       \* TOOL_CACHE_FILE when the run started
    dfFile0,        \* DF_CACHE_FILE when the run started
    fault           \* the exception that ended the run, and where it rose

vars == << rawFile, dfFile, pc, tools, df, topicIdx, gtTools, page, max_pages,
           reqLog, lastAnswer, logged, pause, path, netUsed, rawWrites,
           dfWrites, transformCalls, rawFile0, dfFile0, fault >>

files == << rawFile, dfFile >>

mainLocals == << tools, df, topicIdx >>

getToolsLocals == << gtTools, page, max_pages >>

callLog == << reqLog, lastAnswer, logged, pause >>

observed == << path, netUsed, rawWrites, dfWrites, transformCalls,
               rawFile0, dfFile0 >>

Ended == pc \in { "idle", "done", "fault" }

Init ==
    /\ rawFile = NoFile
    /\ dfFile = NoFile
    /\ pc = "idle"
    /\ tools = << >>
    /\ df = << >>
    /\ topicIdx = 0
    /\ gtTools = << >>
    /\ page = 1
    /\ max_pages = 0
    /\ reqLog = << >>
    /\ lastAnswer = "none"
    /\ logged = "none"
    /\ pause = 0
    /\ path = "none"
    /\ netUsed = FALSE
    /\ rawWrites = 0
    /\ dfWrites = 0
    /\ transformCalls = 0
    /\ rawFile0 = NoFile
    /\ dfFile0 = NoFile
    /\ fault = NoFault

(***************************************************************************)
(* main                                                                    *)
(***************************************************************************)
\* a new process: fresh locals, fresh counters
StartRun(branch) ==
    /\ Ended
    /\ path' = branch
    /\ netUsed' = FALSE
    /\ rawWrites' = 0
    /\ dfWrites' = 0
    /\ transformCalls' = 0
    /\ rawFile0' = rawFile
    /\ dfFile0' = dfFile
    /\ fault' = NoFault
    /\ gtTools' = << >>
    /\ page' = 1
    /\ max_pages' = 0
    /\ reqLog' = << >>
    /\ lastAnswer' = "none"
    /\ logged' = "none"
    /\ pause' = 0

\* MainDfCache without the else of line 193: the run goes on to convert and
\* to write
MainDfCacheFallsThrough ==
    /\ StartRun("df_cache")
    /\ dfFile.exists
    /\ df' = ReadCsv(dfFile.content[1])
    /\ tools' = << >>
    /\ topicIdx' = 0
    /\ pc' = "convert"
    /\ UNCHANGED files

\* lines 190-192: the derived table is cached
MainDfCache ==
    /\ StartRun("df_cache")
    /\ dfFile.exists
    /\ df' = ReadCsv(dfFile.content[1])
    /\ tools' = << >>
    /\ topicIdx' = 0
    /\ pc' = "done"
    /\ UNCHANGED files

\* MainRawCache with the test of line 195 taken the wrong way: the raw cache
\* is there and the run fetches all the same
MainRawCacheFetches ==
    /\ StartRun("raw_cache")
    /\ ~ dfFile.exists
    /\ rawFile.exists
    /\ tools' = << >>
    /\ df' = << >>
    /\ topicIdx' = 1
    /\ pc' = "get_tools"
    /\ UNCHANGED files

\* lines 194-198: the raw records are cached
MainRawCache ==
    /\ StartRun("raw_cache")
    /\ ~ dfFile.exists
    /\ rawFile.exists
    /\ tools' = JsonLoad(rawFile.content[1])
    /\ df' = << >>
    /\ topicIdx' = 0
    /\ pc' = "convert"
    /\ UNCHANGED files

\* lines 199-205: nothing is cached; the first call of get_tools starts
MainFetch ==
    /\ StartRun("network")
    /\ ~ dfFile.exists
    /\ ~ rawFile.exists
    /\ tools' = << >>
    /\ df' = << >>
    /\ topicIdx' = 1
    /\ pc' = "get_tools"
    /\ UNCHANGED files

\* MainExtend with lines 212-213 indented into the loops: the raw cache is
\* written after every topic
MainExtendDumpsInLoop ==
    /\ pc = "returned"
    /\ tools' = tools \o gtTools
    /\ rawFile' = FileOf(JsonDump(tools \o gtTools))
    /\ rawWrites' = rawWrites + 1
    /\ gtTools' = << >>
    /\ page' = 1
    /\ max_pages' = 0
    /\ reqLog' = << >>
    /\ lastAnswer' = "none"
    /\ logged' = "none"
    /\ pause' = 0
    /\ IF topicIdx < Len(TopicsToFetch)
       THEN topicIdx' = topicIdx + 1 /\ pc' = "get_tools"
       ELSE topicIdx' = topicIdx /\ pc' = "dedup"
    /\ UNCHANGED << dfFile, df, path, netUsed, dfWrites, transformCalls,
                    rawFile0, dfFile0, fault >>

\* lines 205, 210: tools.extend(get_tools(topic)), then the next topic, or
\* the end of the loops
MainExtend ==
    /\ pc = "returned"
    /\ tools' = tools \o gtTools
    /\ gtTools' = << >>
    /\ page' = 1
    /\ max_pages' = 0
    /\ reqLog' = << >>
    /\ lastAnswer' = "none"
    /\ logged' = "none"
    /\ pause' = 0
    /\ IF topicIdx < Len(TopicsToFetch)
       THEN topicIdx' = topicIdx + 1 /\ pc' = "get_tools"
       ELSE topicIdx' = topicIdx /\ pc' = "dump"
    /\ UNCHANGED << files, df, observed, fault >>

\* lines 212-213
MainDump ==
    /\ pc = "dump"
    /\ rawFile' = FileOf(JsonDump(tools))
    /\ rawWrites' = rawWrites + 1
    /\ pc' = "dedup"
    /\ UNCHANGED << dfFile, mainLocals, getToolsLocals, callLog, path,
                    netUsed, dfWrites, transformCalls, rawFile0, dfFile0,
                    fault >>

\* lines 215-217
MainDedup ==
    /\ pc = "dedup"
    /\ IF DedupRaises(tools)
       THEN /\ pc' = "fault"
            /\ fault' = [in |-> "main", error |-> "KeyError"]
            /\ tools' = tools
       ELSE /\ pc' = "convert"
            /\ fault' = fault
            /\ tools' = UniqueTools(tools)
    /\ UNCHANGED << files, df, topicIdx, getToolsLocals, callLog, observed >>

\* MainConvert with a loop that passes over a record it cannot read: the
\* other records get their rows
MainConvertSkipsRecord ==
    /\ pc = "convert"
    /\ transformCalls' = transformCalls + 1
    /\ pc' = "to_csv"
    /\ fault' = fault
    /\ df' = tools_to_df(SelectSeq(tools, LAMBDA tool : ~ ToolRaises(tool)))
    /\ UNCHANGED << files, tools, topicIdx, getToolsLocals, callLog, path,
                    netUsed, rawWrites, dfWrites, rawFile0, dfFile0 >>

\* line 220
MainConvert ==
    /\ pc = "convert"
    /\ transformCalls' = transformCalls + 1
    /\ IF ToolsToDfRaises(tools)
       THEN /\ pc' = "fault"
            /\ fault' = [in |-> "tools_to_df", error |-> "KeyError"]
            /\ df' = df
       ELSE /\ pc' = "to_csv"
            /\ fault' = fault
            /\ df' = tools_to_df(tools)
    /\ UNCHANGED << files, tools, topicIdx, getToolsLocals, callLog, path,
                    netUsed, rawWrites, dfWrites, rawFile0, dfFile0 >>

\* line 223
MainToCsv ==
    /\ pc = "to_csv"
    /\ dfFile' = FileOf(ToCsv(df))
    /\ dfWrites' = dfWrites + 1
    /\ pc' = "done"
    /\ UNCHANGED << rawFile, mainLocals, getToolsLocals, callLog, path,
                    netUsed, rawWrites, transformCalls, rawFile0, dfFile0,
                    fault >>

(***************************************************************************)
(* get_tools: one iteration of the while loop per step.                    *)
(***************************************************************************)
\* requests of the current call that brought no page
Failures == Cardinality({ i \in 1..Len(reqLog) : ~ reqLog[i].ok })

\* lines 77-80: requests.get(url, timeout=20), answered by a page
RequestServed(data) ==
    /\ pc = "get_tools"
    /\ reqLog' = Append(reqLog, Served(Url(TopicsToFetch[topicIdx], page), data))
    /\ lastAnswer' = "page"
    /\ netUsed' = TRUE

\* lines 77-82: requests.get(url, timeout=20), ended by an exception
RequestFailed(answer) ==
    /\ pc = "get_tools"
    /\ reqLog' = Append(reqLog, Failed(Url(TopicsToFetch[topicIdx], page)))
    /\ lastAnswer' = answer
    /\ netUsed' = TRUE

\* IsServerError without its lower limit of 500 in effect: any error status
IsServerErrorFrom400(response, status_code) ==
    response # None /\ status_code >= 400 /\ status_code < 600

\* lines 90-94: the condition of the handler of requests.RequestException
IsServerError(response, status_code) ==
    response # None /\ status_code >= 500 /\ status_code < 600

\* RetrySamePage with the page counter advanced by the handler: the page that
\* failed is passed over
RetryNextPage(answer, response, status_code) ==
    /\ Failures < MaxRetries
    /\ RequestFailed(answer)
    /\ IF IsServerError(response, status_code)
       THEN logged' = "warning" /\ pause' = RetryDelay
       ELSE logged' = "info" /\ pause' = 0
    /\ pc' = "get_tools"
    /\ page' = page + 1
    /\ UNCHANGED << files, mainLocals, gtTools, max_pages, path, rawWrites,
                    dfWrites, transformCalls, rawFile0, dfFile0, fault >>

\* lines 89-104: the handler of requests.RequestException warns and sleeps on
\* a 5xx response and is silent otherwise; either way the loop goes on
RetrySamePage(answer, response, status_code) ==
    /\ Failures < MaxRetries
    /\ RequestFailed(answer)
    /\ IF IsServerError(response, status_code)
       THEN logged' = "warning" /\ pause' = RetryDelay
       ELSE logged' = "info" /\ pause' = 0
    /\ pc' = "get_tools"
    /\ UNCHANGED << files, mainLocals, getToolsLocals, path, rawWrites,
                    dfWrites, transformCalls, rawFile0, dfFile0, fault >>

\* lines 81-88: a response that raise_for_status accepts and json() parses
GetToolsPage ==
    \E data \in PageBodies :
        /\ Len(tools) + Len(gtTools) + Len(data.list) <= MaxTools
        /\ GetNext(data) = NextUrl => page < MaxPages
        /\ RequestServed(data)
        /\ logged' = "info"
        /\ pause' = 0
        /\ gtTools' = gtTools \o data.list
        /\ IF GetNext(data) = None \/ GetNext(data) = ""
           THEN /\ pc' = "returned"
                /\ UNCHANGED << page, max_pages, fault >>
           ELSE /\ page' = page + 1
                /\ IF Len(data.list) = 0
                   THEN /\ pc' = "fault"
                        /\ fault' = [in |-> "get_tools",
                                     error |-> "ZeroDivisionError"]
                        /\ max_pages' = max_pages
                   ELSE /\ pc' = "get_tools"
                        /\ fault' = fault
                        /\ max_pages' = Ceil(data.count, Len(data.list))
        /\ UNCHANGED << files, mainLocals, path, rawWrites, dfWrites,
                        transformCalls, rawFile0, dfFile0 >>

\* line 81: raise_for_status raises HTTPError, which carries the response
GetToolsHttpError(status_code) ==
    /\ RaisesForStatus(status_code)
    /\ RetrySamePage("http_failure", "response", status_code)

\* line 80: ConnectionError or Timeout, which carry no response
GetToolsNoResponse ==
    /\ pc = "get_tools"
    /\ RetrySamePage("http_failure", None, 0)

\* line 82 raises on a body that is no JSON, and lines 105-107 handle it:
\* json.JSONDecodeError
GetToolsBadJsonBreak ==
    /\ RequestFailed("no_json")
    /\ logged' = "error"
    /\ pause' = 0
    /\ pc' = "returned"
    /\ UNCHANGED << files, mainLocals, getToolsLocals, path, rawWrites,
                    dfWrites, transformCalls, rawFile0, dfFile0, fault >>

\* line 82 raises on a body that is no JSON, and lines 89-104 handle it: since
\* requests 2.27 Response.json() raises requests.exceptions.JSONDecodeError,
\* which is a requests.RequestException as well as a json.JSONDecodeError and
\* carries no response; the first except clause that matches is taken
GetToolsBadJsonRetry ==
    /\ pc = "get_tools"
    /\ RetrySamePage("no_json", None, 200)

(***************************************************************************)
(* Between two runs the user may delete a cache file.  The run that ended  *)
(* is then over: no run is under observation until the next one starts.    *)
(***************************************************************************)
UserDeleteDf ==
    /\ Ended
    /\ dfFile.exists
    /\ dfFile' = NoFile
    /\ pc' = "idle"
    /\ path' = "none"
    /\ UNCHANGED << rawFile, mainLocals, getToolsLocals, callLog, netUsed,
                    rawWrites, dfWrites, transformCalls, rawFile0, dfFile0,
                    fault >>

UserDeleteRaw ==
    /\ Ended
    /\ rawFile.exists
    /\ rawFile' = NoFile
    /\ pc' = "idle"
    /\ path' = "none"
    /\ UNCHANGED << dfFile, mainLocals, getToolsLocals, callLog, netUsed,
                    rawWrites, dfWrites, transformCalls, rawFile0, dfFile0,
                    fault >>

Next ==
    \/ MainDfCache
    \/ MainRawCache
    \/ MainFetch
    \/ MainExtend
    \/ MainDump
    \/ MainDedup
    \/ MainConvert
    \/ MainToCsv
    \/ GetToolsPage
    \/ \E status_code \in StatusCodes : GetToolsHttpError(status_code)
    \/ GetToolsNoResponse
    \/ GetToolsBadJsonBreak
    \/ GetToolsBadJsonRetry
    \/ UserDeleteDf
    \/ UserDeleteRaw

Spec == Init /\ [][Next]_vars

\* the loop of get_tools runs in the one thread of the process: while the
\* call is in progress its next iteration is taken
GetToolsStep ==
    \/ GetToolsPage
    \/ \E status_code \in StatusCodes : GetToolsHttpError(status_code)
    \/ GetToolsNoResponse
    \/ GetToolsBadJsonBreak
    \/ GetToolsBadJsonRetry

FairSpec == Spec /\ WF_vars(GetToolsStep)

(***************************************************************************)
(* The deduplication and tools_to_df over records of every shape.  The     *)
(* records are those of a raw cache file that main has just loaded (line   *)
(* 198: the run goes on with tools_to_df) or those that main has just       *)
(* fetched and dumped (line 213: the run goes on with the deduplication).  *)
(***************************************************************************)
\* a URI that ends like an EDAM topic and lies in another namespace
ForeignUri(t) == << "http://example.org/topic_", t >>

\* the literal "repository", in lower case
LowerRepositoryType == << "r", "e", "p", "o", "s", "i", "t", "o", "r", "y" >>

\* a record that has every key; topics is its list of URIs
RecordOf(id, name, topics, links) ==
    [ biotoolsID |-> id, name |-> name,
      topic |-> [k \in 1..Len(topics) |-> [uri |-> topics[k]]],
      documentation |-> << >>,
      link |-> links ]

RecordInputs ==
    { \* one tool under its topics: each taxonomy alone, both, none
      RecordOf("t1", "A", << TopicUri("0622") >>, << >>),
      RecordOf("t1", "A", << TopicUri("3922") >>, << >>),
      RecordOf("t1", "A", << TopicUri("3474") >>, << >>),
      RecordOf("t1", "B", << TopicUri("0121"), TopicUri("3474") >>, << >>),
      RecordOf("t1", "B", << >>, << >>),
      RecordOf("t1", "B", << ForeignUri("0622"), TopicUri("9999") >>, << >>),
      \* a tool with links whose type is a str
      RecordOf("t2", "A", << TopicUri("0121") >>,
               << [url |-> "A", type |-> PyStr(RepositoryLiteral)],
                  [url |-> "B", type |-> PyStr(OtherType)],
                  [url |-> "C", type |-> PyStr(SourceRepositoryType)],
                  [url |-> "D", type |-> PyStr(LowerRepositoryType)] >>),
      \* a tool with links whose type is a list of str
      RecordOf("t3", "A", << TopicUri("0622") >>,
               << [url |-> "E", type |-> PyList(<< SourceRepositoryType >>)],
                  [url |-> "F",
                   type |-> PyList(<< OtherType, RepositoryLiteral >>)] >>),
      \* a record without identifier and name
      [ topic |-> << [uri |-> TopicUri("0622")] >>,
        documentation |-> << >>,
        link |-> << >> ],
      \* a record without topic list
      [ biotoolsID |-> "t4", name |-> "A",
        documentation |-> << >>,
        link |-> << >> ] }

RecordSeqs == SeqsUpTo(RecordInputs, MaxRecords)

\* main is at line 220 with the records of the raw cache file
RecordsLoaded(records) ==
    /\ rawFile = FileOf(JsonDump(records))
    /\ rawFile0 = rawFile
    /\ tools = JsonLoad(rawFile.content[1])
    /\ pc = "convert"
    /\ path = "raw_cache"
    /\ topicIdx = 0
    /\ netUsed = FALSE
    /\ rawWrites = 0

\* main is at line 215 with the records it fetched and dumped
RecordsFetched(records) ==
    /\ rawFile = FileOf(JsonDump(records))
    /\ rawFile0 = NoFile
    /\ tools = records
    /\ pc = "dedup"
    /\ path = "network"
    /\ topicIdx = Len(TopicsToFetch)
    /\ netUsed = TRUE
    /\ rawWrites = 1

RecordsInit ==
    /\ \E records \in RecordSeqs :
           RecordsLoaded(records) \/ RecordsFetched(records)
    /\ dfFile = NoFile
    /\ dfFile0 = NoFile
    /\ df = << >>
    /\ gtTools = << >>
    /\ page = 1
    /\ max_pages = 0
    /\ reqLog = << >>
    /\ lastAnswer = "none"
    /\ logged = "none"
    /\ pause = 0
    /\ dfWrites = 0
    /\ transformCalls = 0
    /\ fault = NoFault

RecordsNext ==
    \/ MainDedup
    \/ MainConvert
    \/ MainToCsv

RecordsSpec == RecordsInit /\ [][RecordsNext]_vars

(***************************************************************************)
(* Properties.                                                             *)
(***************************************************************************)
\* a run is under observation: it is in progress, or it has ended and the
\* user has not touched the files since
Observed == path # "none"

\* the lines of the derived table on disk
TableLines == dfFile.content[1].lines

\* C1: in every run that writes the derived table, from the network or from
\* the raw cache, no two rows of the written table carry the same id
C1_WrittenTableIdsUnique ==
    (Observed /\ dfWrites > 0) =>
        \A i, j \in 1..Len(TableLines) :
            i # j => TableLines[i].id # TableLines[j].id

\* C1 on the network path alone, where the deduplication runs
C1_Network_WrittenTableIdsUnique ==
    (Observed /\ dfWrites > 0 /\ path = "network") =>
        \A i, j \in 1..Len(TableLines) :
            i # j => TableLines[i].id # TableLines[j].id

\* a run over the raw cache has written a table with a repeated id
C1_RawCacheRunWroteDuplicate ==
    /\ path = "raw_cache"
    /\ dfWrites = 1
    /\ \E i, j \in 1..Len(TableLines) :
           i # j /\ TableLines[i].id = TableLines[j].id

\* C2: when the derived cache file exists at the start of main, the run issues
\* no request, calls neither get_tools nor tools_to_df, writes no file, and
\* both cache files stay as they were
C2_DfCacheShortCircuit ==
    (Observed /\ dfFile0.exists) =>
        /\ pc = "done"
        /\ ~ netUsed
        /\ topicIdx = 0
        /\ transformCalls = 0
        /\ rawWrites = 0
        /\ dfWrites = 0
        /\ dfFile = dfFile0
        /\ rawFile = rawFile0

\* a run that found the derived cache (and the raw cache beside it) has ended
C2_Witness ==
    /\ path = "df_cache"
    /\ pc = "done"
    /\ dfFile0.exists
    /\ rawFile0.exists
    /\ Len(df) > 0


\* the run started with the raw cache file and without the derived one
RawCacheStart == Observed /\ ~ dfFile0.exists /\ rawFile0.exists

\* the records of the raw cache file the run started with
RawRecords0 == JsonLoad(rawFile0.content[1])

\* the run is over
RunOver == pc \in { "done", "fault" }

\* C3 as stated: after a start with the raw cache alone the run issues no
\* request, does not rewrite the raw cache, and converts the loaded records
\* and writes the derived table exactly once
C3_RawCacheRunWritesTable ==
    RawCacheStart =>
        /\ ~ netUsed
        /\ topicIdx = 0
        /\ rawWrites = 0
        /\ rawFile = rawFile0
        /\ RunOver =>
              /\ transformCalls = 1
              /\ dfWrites = 1
              /\ dfFile.exists

\* C3 amended: after a start with the raw cache alone the run issues no
\* request and does not rewrite the raw cache; when every loaded record has the
\* keys tools_to_df reads it writes, exactly once, the table of the loaded
\* records, and otherwise it ends in the KeyError of tools_to_df and writes
\* nothing
C3_RawCacheRun ==
    RawCacheStart =>
        /\ ~ netUsed
        /\ topicIdx = 0
        /\ rawWrites = 0
        /\ rawFile = rawFile0
        /\ dfWrites <= 1
        /\ transformCalls <= 1
        /\ pc \in { "convert", "to_csv", "done", "fault" }
        /\ pc = "done" =>
              /\ ~ ToolsToDfRaises(RawRecords0)
              /\ transformCalls = 1
              /\ dfWrites = 1
              /\ dfFile = FileOf(ToCsv([i \in 1..Len(RawRecords0) |->
                                           ToolRow(RawRecords0[i])]))
        /\ pc = "fault" =>
              /\ ToolsToDfRaises(RawRecords0)
              /\ fault = [in |-> "tools_to_df", error |-> "KeyError"]
              /\ dfWrites = 0
              /\ dfFile = dfFile0

\* a run over a raw cache of two records has written their table
C3_Witness ==
    /\ RawCacheStart
    /\ pc = "done"
    /\ dfWrites = 1
    /\ Len(RawRecords0) = 2
    /\ Len(TableLines) = 2

\* the records the run fetched, in the order main concatenated them: the
\* content of the raw cache file that main wrote right before deduplicating
Fetched == JsonLoad(rawFile.content[1])

\* the place of the last record of tool k among the fetched records
LastOccurrence(k) ==
    CHOOSE i \in 1..Len(Fetched) :
        /\ Fetched[i].biotoolsID = k
        /\ \A j \in (i + 1)..Len(Fetched) : Fetched[j].biotoolsID # k

\* main has deduplicated the fetched records
Deduplicated == Observed /\ path = "network" /\ pc = "convert"

\* C4: on the cold path the deduplication yields exactly one record per
\* distinct biotoolsID of the fetched records, and it is the last record
\* fetched under that identifier
C4_DedupKeepsLast ==
    Deduplicated =>
        /\ \A i \in 1..Len(Fetched) :
               Cardinality({ j \in 1..Len(tools) :
                   tools[j].biotoolsID = Fetched[i].biotoolsID }) = 1
        /\ \A j \in 1..Len(tools) :
               /\ \E i \in 1..Len(Fetched) :
                      Fetched[i].biotoolsID = tools[j].biotoolsID
               /\ tools[j] = Fetched[LastOccurrence(tools[j].biotoolsID)]

\* two records of one tool that differ were fetched, one record is left
C4_Witness ==
    /\ Deduplicated
    /\ Len(Fetched) = 2
    /\ Fetched[1].biotoolsID = Fetched[2].biotoolsID
    /\ Fetched[1] # Fetched[2]
    /\ tools = << Fetched[2] >>


\* a call of get_tools is in progress, has returned, or has raised
InCall ==
    /\ Observed
    /\ topicIdx > 0
    /\ pc \in { "get_tools", "returned" } \/ fault.in = "get_tools"

\* the list arrays of the pages of a request log, one after the other
RECURSIVE ListsOf(_)
ListsOf(log) ==
    IF Len(log) = 0 THEN << >> ELSE log[1].list \o ListsOf(Tail(log))

\* the last entry of the request log
LastRequest == reqLog[Len(reqLog)]

\* C5: when every request is answered by a page, pages 1..k with a next and
\* page k+1 without, get_tools requests pages 1, 2, .., k+1 of the topic in
\* this order, k+1 requests in all, and returns the pages' list arrays, one
\* after the other
C5_PaginationClaim ==
    (InCall /\ \A i \in 1..Len(reqLog) : reqLog[i].ok) =>
        /\ \A i \in 1..Len(reqLog) :
               reqLog[i].url = Url(TopicsToFetch[topicIdx], i)
        /\ gtTools = ListsOf(reqLog)
        /\ pc = "get_tools" => \A i \in 1..Len(reqLog) : reqLog[i].more
        /\ pc # "get_tools" =>
              /\ pc = "returned"
              /\ Len(reqLog) >= 1
              /\ ~ LastRequest.more
              /\ \A i \in 1..(Len(reqLog) - 1) : reqLog[i].more

\* C5 for the calls in which no page that names a next page has an empty list
C5_Pagination_NoEmptyPage ==
    ( /\ InCall
      /\ \A i \in 1..Len(reqLog) :
             /\ reqLog[i].ok
             /\ reqLog[i].more => Len(reqLog[i].list) > 0 ) =>
        /\ \A i \in 1..Len(reqLog) :
               reqLog[i].url = Url(TopicsToFetch[topicIdx], i)
        /\ gtTools = ListsOf(reqLog)
        /\ pc = "get_tools" => \A i \in 1..Len(reqLog) : reqLog[i].more
        /\ pc # "get_tools" =>
              /\ pc = "returned"
              /\ Len(reqLog) >= 1
              /\ ~ LastRequest.more
              /\ \A i \in 1..(Len(reqLog) - 1) : reqLog[i].more

\* a call has returned two pages, requested in order, without a failure
C5_Witness ==
    /\ InCall
    /\ pc = "returned"
    /\ Len(reqLog) = 2
    /\ reqLog[1].ok /\ reqLog[2].ok
    /\ Len(gtTools) = 2

\* what an iteration that ends in the handler of RequestException leaves
RetriesSamePage ==
    /\ pc' = "get_tools"
    /\ page' = page
    /\ gtTools' = gtTools
    /\ max_pages' = max_pages
    /\ tools' = tools
    /\ reqLog' = Append(reqLog, Failed(Url(TopicsToFetch[topicIdx], page')))
    /\ lastAnswer' = "http_failure"

C7_BadJsonEndsFetch ==
    (InCall /\ lastAnswer = "no_json") =>
        /\ pc = "returned"
        /\ gtTools = ListsOf(SubSeq(reqLog, 1, Len(reqLog) - 1))

\* a call has returned after a body that is no JSON, with the page before it
C7_ReturnedAfterBadJson ==
    /\ InCall
    /\ pc = "returned"
    /\ logged = "error"
    /\ lastAnswer = "no_json"
    /\ Len(gtTools) > 0

\* C8: a call returns only after a page without next or after a body that is
\* no JSON, and a call whose requests fail only finitely often and that is
\* served a page without next returns
C8_ReturnsWhenServed ==
    /\ [](InCall /\ pc = "returned" =>
              /\ Len(reqLog) >= 1
              /\ \/ lastAnswer = "page" /\ ~ LastRequest.more
                 \/ lastAnswer = "no_json")
    /\ [](pc = "get_tools" => <>(pc = "returned"))

\* C9: whatever the server answers, an HTTP failure, a body that is no JSON,
\* or a page with list, count and maybe next, a call of get_tools returns or
\* retries: no exception leaves it
C9_FetchNeverRaises == fault.in # "get_tools"

\* C10: main writes the raw cache file only after the call of get_tools for
\* the last topic of the two lists has returned, and once at most in a run; as
\* long as the run has not written it, and so in a run in which a call
\* raises or goes on retrying, the file is as it was when the run started
C10_RawCacheWrittenAfterAllFetches ==
    Observed =>
        /\ rawWrites <= 1
        /\ rawWrites = 0 => rawFile = rawFile0
        /\ rawWrites = 1 =>
              /\ path = "network"
              /\ topicIdx = Len(TopicsToFetch)
              /\ pc \in { "dedup", "convert", "to_csv", "done", "fault" }
              /\ fault.in # "get_tools"
              /\ rawFile.exists
        /\ pc \in { "get_tools", "returned", "dump" } => rawWrites = 0
        /\ fault.in = "get_tools" => rawWrites = 0

\* the raw cache has been written, with two records, after the last topic
C10_Witness ==
    /\ Observed
    /\ pc = "dedup"
    /\ rawWrites = 1
    /\ topicIdx = Len(TopicsToFetch)
    /\ Len(JsonLoad(rawFile.content[1])) = 2

\* tools_to_df has been called with a record that has no topic key
HandedRecordWithoutTopic ==
    /\ Observed
    /\ transformCalls > 0
    /\ \E i \in 1..Len(tools) : "topic" \notin DOMAIN tools[i]

\* C11: when a record handed to tools_to_df has no topic key, the run ends
\* in the KeyError of tools_to_df: no row exists, of that record or of any
\* other, and the derived cache file is not written
C11_MissingTopicEndsRun ==
    HandedRecordWithoutTopic =>
        /\ pc = "fault"
        /\ fault = [in |-> "tools_to_df", error |-> "KeyError"]
        /\ df = << >>
        /\ dfWrites = 0
        /\ dfFile = dfFile0
        /\ ~ dfFile.exists

\* tools_to_df was handed a complete record and then one without topic, and
\* the run has ended
C11_Witness ==
    /\ HandedRecordWithoutTopic
    /\ Len(tools) = 2
    /\ ~ ToolRaises(tools[1])
    /\ "topic" \notin DOMAIN tools[2]
    /\ pc = "fault"

\* tools_to_df has returned: tools is what it was handed, df what it returned
Converted ==
    /\ Observed
    /\ transformCalls = 1
    /\ pc \in { "to_csv", "done" }

\* the topic URIs a record declares
TopicUrisOf(tool) == { tool.topic[k].uri : k \in 1..Len(tool.topic) }

\* the URIs of a taxonomy: the EDAM namespace followed by the topic id
EdamUris(topics) ==
    { << "http://edamontology.org/topic_", topics[k] >> :
        k \in 1..Len(topics) }

\* the three flags of a row
Flags(row) ==
    << row.is_genomics, row.is_proteomics, row.is_machine_learning >>

\* C12: each flag of a row is true exactly when the topic URIs of the row's
\* record meet the URIs of the flag's taxonomy; records with the same topic
\* URIs get the same flags; a record whose one topic is 0622 is genomic only,
\* and one whose one topic is 3922 is genomic and proteomic
C12_FlagsFollowTopics ==
    Converted =>
        /\ \A i \in 1..Len(df) :
               LET uris == TopicUrisOf(tools[i])
               IN  /\ df[i].is_genomics <=>
                          (uris \cap EdamUris(GENOMIC_EDAM_TOPICS) # { })
                   /\ df[i].is_proteomics <=>
                          (uris \cap EdamUris(PROTEOMICS_EDAM_TOPICS) # { })
                   /\ df[i].is_machine_learning <=>
                          (uris \cap EdamUris(MACHINE_LEARNING_EDAM_TOPICS)
                               # { })
                   /\ uris = { << "http://edamontology.org/topic_", "0622" >> }
                          => Flags(df[i]) = << TRUE, FALSE, FALSE >>
                   /\ uris = { << "http://edamontology.org/topic_", "3922" >> }
                          => df[i].is_genomics /\ df[i].is_proteomics
        /\ \A i, j \in 1..Len(df) :
               TopicUrisOf(tools[i]) = TopicUrisOf(tools[j])
                   => Flags(df[i]) = Flags(df[j])

\* the table of three records is written: one of topic 0622, one of topic
\* 3922, and one whose URIs are of another namespace or of no taxonomy
C12_Witness ==
    /\ Converted
    /\ pc = "done"
    /\ Len(df) = 3
    /\ TopicUrisOf(tools[1]) = { TopicUri("0622") }
    /\ Flags(df[1]) = << TRUE, FALSE, FALSE >>
    /\ TopicUrisOf(tools[2]) = { TopicUri("3922") }
    /\ Flags(df[2]) = << TRUE, TRUE, FALSE >>
    /\ TopicUrisOf(tools[3]) = { ForeignUri("0622"), TopicUri("9999") }
    /\ Flags(df[3]) = << FALSE, FALSE, FALSE >>

\* the text of a link type has "Repository" in it: the str itself, or a str
\* of the list
TypeHasSubstring(type) ==
    IF type.py = "str" THEN StrContains(type.v, RepositoryLiteral)
    ELSE \E k \in 1..Len(type.v) : StrContains(type.v[k], RepositoryLiteral)

\* what Python's in gives: a str type has "Repository" in it, a list type has
\* the element "Repository"
TypeMatches(type) ==
    IF type.py = "str" THEN StrContains(type.v, RepositoryLiteral)
    ELSE \E k \in 1..Len(type.v) : type.v[k] = RepositoryLiteral

\* the URLs of the links of a record, in their order
UrlsOf(links) == [k \in 1..Len(links) |-> links[k].url]

ServedPages == SelectSeq(reqLog, LAMBDA request : request.ok)

\* C14: however failed requests and served pages alternate, the pages served
\* to a call are the pages 1, 2, .. in this order, each of them once, and the
\* list of the call is their list arrays one after the other: no page is
\* appended twice and none is left out
C14_EachPageOnceInOrder ==
    InCall =>
        /\ \A i \in 1..Len(ServedPages) :
               ServedPages[i].url = Url(TopicsToFetch[topicIdx], i)
        /\ gtTools = ListsOf(ServedPages)

\* a call has returned the records of its two pages; the first request for
\* the second page had failed
C14_Witness ==
    /\ InCall
    /\ pc = "returned"
    /\ Len(reqLog) = 3
    /\ reqLog[1].ok /\ ~ reqLog[2].ok /\ reqLog[3].ok
    /\ reqLog[2].url.page = 2
    /\ reqLog[3].url.page = 2
    /\ gtTools = reqLog[1].list \o reqLog[3].list
    /\ Len(gtTools) = 2

\* the cold run that fetched the records and dumped them went on to write the
\* derived table: neither its deduplication nor its tools_to_df raised
ColdRunWroteTable(records) ==
    /\ ~ DedupRaises(records)
    /\ ~ ToolsToDfRaises(UniqueTools(records))

\* the derived table that cold run wrote
ColdRunTable(records) == FileOf(ToCsv(tools_to_df(UniqueTools(records))))

\* C15: a run that starts with the raw cache file alone, left by a cold run
\* that wrote its derived table, ends with the same derived table written:
\* the same rows in the same order
C15_RawCacheTransparent ==
    (RawCacheStart /\ RunOver /\ ColdRunWroteTable(RawRecords0)) =>
        /\ pc = "done"
        /\ dfFile = ColdRunTable(RawRecords0)

\* a run over the raw cache has written a table with more rows than the table
\* of the cold run that left the raw cache
C15_RawCacheRunWroteOtherTable ==
    /\ RawCacheStart
    /\ pc = "done"
    /\ ColdRunWroteTable(RawRecords0)
    /\ Len(TableLines) > Len(ColdRunTable(RawRecords0).content[1].lines)

\* C15 for the raw caches in which no identifier occurs twice
C15_Transparent_UniqueIds ==
    ( /\ RawCacheStart
      /\ RunOver
      /\ ColdRunWroteTable(RawRecords0)
      /\ \A i, j \in 1..Len(RawRecords0) :
             i # j => RawRecords0[i].biotoolsID # RawRecords0[j].biotoolsID ) =>
        /\ pc = "done"
        /\ dfFile = ColdRunTable(RawRecords0)

\* the place of the first record of tool k among the fetched records
FirstOccurrence(k) ==
    CHOOSE i \in 1..Len(Fetched) :
        /\ Fetched[i].biotoolsID = k
        /\ \A j \in 1..(i - 1) : Fetched[j].biotoolsID # k

\* C16: the deduplicated records stand in the order in which their identifiers
\* first occur among the fetched records, and each of them is the last record
\* fetched under its identifier
C16_SlotOfFirstContentOfLast ==
    Deduplicated =>
        /\ \A j \in 1..Len(tools) :
               /\ \E i \in 1..Len(Fetched) :
                      Fetched[i].biotoolsID = tools[j].biotoolsID
               /\ tools[j] = Fetched[LastOccurrence(tools[j].biotoolsID)]
        /\ \A j, k \in 1..Len(tools) :
               j < k => FirstOccurrence(tools[j].biotoolsID)
                            < FirstOccurrence(tools[k].biotoolsID)
        /\ \A i \in 1..Len(Fetched) :
               \E j \in 1..Len(tools) :
                   tools[j].biotoolsID = Fetched[i].biotoolsID

\* a tool was fetched, then another, then the first again with other content:
\* the first slot holds the third record, the second slot the second
C16_Witness ==
    /\ Deduplicated
    /\ Len(Fetched) = 3
    /\ Fetched[1].biotoolsID = Fetched[3].biotoolsID
    /\ Fetched[1].biotoolsID # Fetched[2].biotoolsID
    /\ Fetched[1] # Fetched[3]
    /\ tools = << Fetched[3], Fetched[2] >>

\* the run fetches, or has fetched, from the network
ColdRun == Observed /\ path = "network"

\* the n-th topic entry in the configured order: the proteomics topics, then
\* the genomics topics
ConfiguredTopic(n) ==
    IF n <= Len(PROTEOMICS_EDAM_TOPICS) THEN PROTEOMICS_EDAM_TOPICS[n]
    ELSE GENOMIC_EDAM_TOPICS[n - Len(PROTEOMICS_EDAM_TOPICS)]

ConfiguredEntries == Len(PROTEOMICS_EDAM_TOPICS) + Len(GENOMIC_EDAM_TOPICS)

\* the n-th call of get_tools is the one call there is, and every request of
\* it is for the n-th configured topic; past the loops every entry has had
\* its call
CallsFollowConfiguredOrder ==
    ColdRun =>
        /\ topicIdx \in 1..ConfiguredEntries
        /\ \A i \in 1..Len(reqLog) :
               reqLog[i].url.topic = ConfiguredTopic(topicIdx)
        /\ (pc \in { "dump", "dedup", "convert", "to_csv", "done" }
              \/ fault.in \in { "main", "tools_to_df" })
                 => topicIdx = ConfiguredEntries
        /\ pc \in { "get_tools", "returned" } \/ fault.in = "get_tools"
              \/ reqLog = << >>

\* a step of a cold run: the first call starts with the run, on an empty
\* list; a further call starts only in the step that takes the result of the
\* call before it, for the next entry; the running list grows by the result
\* of the call that returned and by nothing else before the loops are over
CallsAreSequential ==
    /\ (ColdRun' /\ topicIdx' # topicIdx) =>
           \/ Ended /\ topicIdx' = 1 /\ tools' = << >> /\ pc' = "get_tools"
           \/ /\ pc = "returned"
              /\ topicIdx' = topicIdx + 1
              /\ pc' = "get_tools"
    /\ (ColdRun /\ pc = "returned" /\ pc' # pc) =>
           /\ tools' = tools \o gtTools
           /\ reqLog' = << >>
           /\ IF topicIdx < ConfiguredEntries
              THEN topicIdx' = topicIdx + 1 /\ pc' = "get_tools"
              ELSE topicIdx' = topicIdx /\ pc' = "dump"
    /\ (ColdRun /\ ~ Ended /\ tools' # tools) =>
           pc \in { "returned", "dedup" }
    /\ (ColdRun /\ pc = "get_tools") =>
           pc' \in { "get_tools", "returned", "fault" }

\* C17: on the cold path main calls get_tools once for each configured topic
\* entry, the proteomics topics in their order and then the genomics topics in
\* theirs, one call after the other has returned, and its list is the results
\* of the calls, one after the other
C17_FetchesInConfiguredOrder ==
    /\ [] CallsFollowConfiguredOrder
    /\ [][CallsAreSequential]_vars

\* the call for the first genomics topic, the third call, is in progress; the
\* two proteomics calls returned a record each
C17_Witness ==
    /\ ColdRun
    /\ pc = "get_tools"
    /\ topicIdx = 3
    /\ Len(tools) = 2
    /\ Len(reqLog) = 1
    /\ reqLog[1].url.topic = "0622"
    /\ tools[1] # tools[2]

\* C18: for records that all have the keys tools_to_df reads, the table has
\* one row for each record, in the order of the records: row i carries the
\* biotoolsID of record i as id and its name as name, and the empty string
\* for the one the record lacks; tools_to_df raises only on a record that
\* lacks one of those keys
C18_OneRowPerRecordInOrder ==
    /\ Converted =>
           /\ Len(df) = Len(tools)
           /\ \A i \in 1..Len(tools) :
                  /\ "biotoolsID" \in DOMAIN tools[i]
                         => df[i].id = tools[i].biotoolsID
                  /\ "biotoolsID" \notin DOMAIN tools[i] => df[i].id = ""
                  /\ "name" \in DOMAIN tools[i] => df[i].name = tools[i].name
                  /\ "name" \notin DOMAIN tools[i] => df[i].name = ""
    /\ (Observed /\ fault.in = "tools_to_df") =>
           \E i \in 1..Len(tools) :
               ~ ({ "topic", "documentation", "link" } \subseteq DOMAIN tools[i])

\* three records, the second without identifier and name and the two others
\* of different tools, have their three rows
C18_Witness ==
    /\ Converted
    /\ Len(tools) = 3
    /\ DOMAIN tools[2] = RequiredKeys
    /\ << df[1].id, df[2].id, df[3].id >> = << "t2", "", "t1" >>
    /\ << df[1].name, df[2].name, df[3].name >> = << "A", "", "B" >>

\* the fault in which the cold run that fetched and dumped the records ended
\* after its fetches, if it did
ColdRunFault(records) ==
    IF DedupRaises(records) THEN [in |-> "main", error |-> "KeyError"]
    ELSE IF ToolsToDfRaises(UniqueTools(records))
         THEN [in |-> "tools_to_df", error |-> "KeyError"]
         ELSE NoFault

\* C19: a cold run that ends, after its fetches, in the fault of the
\* deduplication or of tools_to_df has written the raw cache file and not the
\* derived one; a later run that finds these files issues no request and ends
\* in the same fault
C19_FaultRecursFromRawCache ==
    /\ (ColdRun /\ fault.in \in { "main", "tools_to_df" }) =>
           /\ rawWrites = 1
           /\ rawFile.exists
           /\ dfWrites = 0
           /\ ~ dfFile.exists
    /\ (RawCacheStart /\ ColdRunFault(RawRecords0) # NoFault) =>
           /\ ~ netUsed
           /\ RunOver => (pc = "fault" /\ fault = ColdRunFault(RawRecords0))

\* a cold run ended in the KeyError of the deduplication, and the run after
\* it, over the raw cache it left, has written a derived table
C19_LaterRunWroteTable ==
    /\ RawCacheStart
    /\ DedupRaises(RawRecords0)
    /\ pc = "done"
    /\ dfWrites = 1
    /\ dfFile.exists

\* C19 for the cold runs that end in the fault of tools_to_df
C19_TransformFaultRecurs ==
    /\ (ColdRun /\ fault.in \in { "main", "tools_to_df" }) =>
           /\ rawWrites = 1
           /\ rawFile.exists
           /\ dfWrites = 0
           /\ ~ dfFile.exists
    /\ (RawCacheStart /\ ColdRunFault(RawRecords0).in = "tools_to_df") =>
           /\ ~ netUsed
           /\ RunOver => (pc = "fault" /\ fault = ColdRunFault(RawRecords0))

====
